---- MODULE Spec2Model ----
(***************************************************************************)
(* hsluv-c (src/src/hsluv.c): conversion between sRGB and HSLuv / HPLuv.   *)
(*                                                                         *)
(* The program computes on IEEE-754 binary floating point.  The model      *)
(* keeps that arithmetic (round to nearest even, signed zero, infinities,  *)
(* NaN, overflow, gradual underflow) and bounds the width of the           *)
(* significand: a C double has MantBits bits here, a C float FltBits.      *)
(* The functions of <math.h> are computed from the rounded operations.     *)
(***************************************************************************)
EXTENDS Integers, Sequences, FiniteSets, TLC

\* Bits of the significand of a double and of a float in the model.
MantBits == 12
FltBits == 6

(***************************************************************************)
(* Floating-point values and formats                                       *)
(***************************************************************************)
\* A format: precision p; e ranges over the exponent of the last place, so a
\* finite value is s * m * 2^e with m < 2^p.
DBL == [p |-> MantBits, emin |-> (-1022) - (MantBits - 1), emax |-> 1023 - (MantBits - 1)]
FLT == [p |-> FltBits, emin |-> (-126) - (FltBits - 1), emax |-> 127 - (FltBits - 1)]

NaN == [k |-> "nan", s |-> 1, m |-> 0, e |-> 0]
Inf(s) == [k |-> "inf", s |-> s, m |-> 0, e |-> 0]
Fin(s, m, e) == [k |-> "fin", s |-> s, m |-> m, e |-> e]
Zero(s) == Fin(s, 0, 0)

IsZero(a) == a.k = "fin" /\ a.m = 0
IsFinite(a) == a.k = "fin"

Max(a, b) == IF a >= b THEN a ELSE b
Min(a, b) == IF a <= b THEN a ELSE b
Abs(n) == IF n < 0 THEN -n ELSE n
SignOf(n) == IF n < 0 THEN -1 ELSE 1

RECURSIVE BitLen(_)
BitLen(n) == IF n = 0 THEN 0 ELSE 1 + BitLen(n \div 2)
\* The position above the leading bit of a finite value.
Top(a) == a.e + BitLen(a.m)

\* Rounding of s * N * 2^E (N >= 0; sticky: the exact value lies just above
\* N * 2^E) to format f, to nearest, ties to even.  bl is the length of N, sh
\* the number of low bits to drop, q and r the kept and the dropped bits.
Normal(f, s, m1, e) ==
    IF m1 = 0 THEN Zero(s)
    ELSE IF m1 = 2 ^ f.p THEN (IF e + 1 > f.emax THEN Inf(s) ELSE Fin(s, m1 \div 2, e + 1))
    ELSE IF e > f.emax THEN Inf(s)
    ELSE Fin(s, m1, e)
RoundShifted(f, s, e, sticky, q, r, half) ==
    Normal(f, s, IF r > half \/ (r = half /\ (sticky \/ q % 2 = 1)) THEN q + 1 ELSE q, e)
RoundBy(f, s, N, E, sticky, bl, sh) ==
    IF sh <= 0
    THEN (IF E - Min(f.p - bl, E - f.emin) > f.emax THEN Inf(s)
          ELSE Fin(s, N * (2 ^ Min(f.p - bl, E - f.emin)), E - Min(f.p - bl, E - f.emin)))
    ELSE IF sh > 30 THEN Zero(s)
    ELSE RoundShifted(f, s, E + sh, sticky, N \div (2 ^ sh), N % (2 ^ sh), 2 ^ (sh - 1))
Round(f, s, N, E, sticky) ==
    IF N = 0 THEN Zero(s)
    ELSE RoundBy(f, s, N, E, sticky, BitLen(N), Max(BitLen(N) - f.p, f.emin - E))

\* Conversion between formats ((float)x, (double)x).
Cvt(f, a) == IF a.k = "fin" THEN Round(f, a.s, a.m, a.e, FALSE) ELSE a

FromInt(f, n) == Round(f, SignOf(n), Abs(n), 0, FALSE)

\* <<floor(n * 2^k / d), whether a remainder is left>>, by long division.
RECURSIVE LongDiv(_, _, _, _)
LongDiv(q, r, d, k) ==
    IF k = 0 THEN <<q, r /= 0>>
    ELSE IF 2 * r >= d THEN LongDiv(2 * q + 1, 2 * r - d, d, k - 1)
    ELSE LongDiv(2 * q, 2 * r, d, k - 1)
RoundQuotient(f, s, qr, E) == Round(f, s, qr[1], E, qr[2])

\* The quotient n / d of two positive integers, rounded once.
Ratio(f, s, n, d) ==
    RoundQuotient(f, s, LongDiv(n \div d, n % d, d, Max(0, f.p + 2 + BitLen(d) - BitLen(n))),
                  0 - Max(0, f.p + 2 + BitLen(d) - BitLen(n)))

\* A decimal literal of the source: digits * 10^-places.
Lit(digits, places) == Ratio(DBL, SignOf(digits), Abs(digits), 10 ^ places)

FNeg(a) == IF a.k = "nan" THEN a ELSE [a EXCEPT !.s = -a.s]
FAbs(a) == IF a.k = "nan" THEN a ELSE [a EXCEPT !.s = 1]
WithSign(s, a) == IF a.k = "nan" THEN a ELSE [a EXCEPT !.s = s]

\* a + b for finite a /= 0 whose leading bit is at least as high as b's.  A
\* b = 0 adds nothing; a b below a quarter of a's last place acts as a sticky
\* bit; sum is the exact sum in units of 2^e.
RoundSigned(f, sum, e) ==
    IF sum = 0 THEN Zero(1) ELSE Round(f, SignOf(sum), Abs(sum), e, FALSE)
AddAligned(f, a, b) ==
    RoundSigned(f, a.s * a.m * (2 ^ (a.e - Min(a.e, b.e)))
                     + b.s * b.m * (2 ^ (b.e - Min(a.e, b.e))), Min(a.e, b.e))
AddOrdered(f, a, b) ==
    AddAligned(f, a, IF b.m = 0 THEN Fin(1, 0, a.e)
                     ELSE IF Top(a) - Top(b) > f.p + 2 THEN Fin(b.s, 1, a.e - 3)
                     ELSE b)
FirstIsLarger(a, b) == b.m = 0 \/ (a.m /= 0 /\ Top(a) >= Top(b))

FAdd(f, a, b) ==
    IF a.k = "nan" \/ b.k = "nan" THEN NaN
    ELSE IF a.k = "inf" THEN (IF b.k = "inf" /\ a.s /= b.s THEN NaN ELSE a)
    ELSE IF b.k = "inf" THEN b
    ELSE IF a.m = 0 /\ b.m = 0 THEN Zero(IF a.s = -1 /\ b.s = -1 THEN -1 ELSE 1)
    ELSE AddOrdered(f, IF FirstIsLarger(a, b) THEN a ELSE b,
                       IF FirstIsLarger(a, b) THEN b ELSE a)

FSub(f, a, b) == FAdd(f, a, FNeg(b))

FMul(f, a, b) ==
    IF a.k = "nan" \/ b.k = "nan" THEN NaN
    ELSE IF a.k = "inf" \/ b.k = "inf"
         THEN (IF IsZero(a) \/ IsZero(b) THEN NaN ELSE Inf(a.s * b.s))
    ELSE IF a.m = 0 \/ b.m = 0 THEN Zero(a.s * b.s)
    ELSE Round(f, a.s * b.s, a.m * b.m, a.e + b.e, FALSE)

\* a / b for finite nonzero a and b, with k more quotient bits than a.m \div b.m has.
DivBy(f, a, b, k) ==
    RoundQuotient(f, a.s * b.s, LongDiv(a.m \div b.m, a.m % b.m, b.m, k), a.e - b.e - k)
FDiv(f, a, b) ==
    IF a.k = "nan" \/ b.k = "nan" THEN NaN
    ELSE IF a.k = "inf" THEN (IF b.k = "inf" THEN NaN ELSE Inf(a.s * b.s))
    ELSE IF b.k = "inf" THEN Zero(a.s * b.s)
    ELSE IF b.m = 0 THEN (IF a.m = 0 THEN NaN ELSE Inf(a.s * b.s))
    ELSE IF a.m = 0 THEN Zero(a.s * b.s)
    ELSE DivBy(f, a, b, f.p + 2 + Max(0, BitLen(b.m) - BitLen(a.m)))

\* floor(sqrt(n)) by bisection: lo^2 <= n < hi^2.
RECURSIVE ISqrt(_, _, _)
ISqrt(n, lo, hi) ==
    IF hi - lo <= 1 THEN lo
    ELSE IF ((lo + hi) \div 2) * ((lo + hi) \div 2) <= n THEN ISqrt(n, (lo + hi) \div 2, hi)
    ELSE ISqrt(n, lo, (lo + hi) \div 2)

\* sqrt(a) for finite a > 0: the root r of N = a.m * 2^k, where a.e - k is even.
SqrtRound(f, e, N, lost, r) == Round(f, 1, r, e \div 2, r * r /= N \/ lost)
SqrtOf(f, e, N, lost) == SqrtRound(f, e, N, lost, ISqrt(N, 0, 46341))
SqrtScaled(f, a, k) ==
    SqrtOf(f, a.e - k, IF k >= 0 THEN a.m * (2 ^ k) ELSE a.m \div (2 ^ (-k)),
           k < 0 /\ a.m % (2 ^ (-k)) /= 0)
FSqrt(f, a) ==
    IF a.k = "nan" THEN NaN
    ELSE IF a.k = "inf" THEN (IF a.s = -1 THEN NaN ELSE a)
    ELSE IF a.m = 0 THEN a
    ELSE IF a.s = -1 THEN NaN
    ELSE SqrtScaled(f, a, (2 * f.p + 2 - BitLen(a.m))
                             + ((a.e - (2 * f.p + 2 - BitLen(a.m))) % 2))

\* Comparison: -1, 0, 1 for ordered operands (neither is NaN).
Sgn(a) == IF IsZero(a) THEN 0 ELSE a.s
IntCmp(x, y) == IF x < y THEN -1 ELSE IF x > y THEN 1 ELSE 0
MagCmp(a, b) ==
    IF a.k = "inf" THEN (IF b.k = "inf" THEN 0 ELSE 1)
    ELSE IF b.k = "inf" THEN -1
    ELSE IF Top(a) /= Top(b) THEN IntCmp(Top(a), Top(b))
    ELSE IntCmp(a.m * (2 ^ (a.e - Min(a.e, b.e))), b.m * (2 ^ (b.e - Min(a.e, b.e))))
Cmp(a, b) ==
    IF Sgn(a) /= Sgn(b) THEN IntCmp(Sgn(a), Sgn(b))
    ELSE IF Sgn(a) = 0 THEN 0
    ELSE Sgn(a) * MagCmp(a, b)

FLt(a, b) == a.k /= "nan" /\ b.k /= "nan" /\ Cmp(a, b) < 0
FLe(a, b) == a.k /= "nan" /\ b.k /= "nan" /\ Cmp(a, b) <= 0
FGt(a, b) == FLt(b, a)
FGe(a, b) == FLe(b, a)
FEq(a, b) == a.k /= "nan" /\ b.k /= "nan" /\ Cmp(a, b) = 0

(***************************************************************************)
(* <math.h>: pow, sin, cos, atan2, each computed in format f               *)
(***************************************************************************)
\* Fractional bits of a non-integer exponent of pow that are used.
PowBits == MantBits + 4

\* x^n for an integer n >= 0.
RECURSIVE PowInt(_, _, _)
PowInt(f, x, n) ==
    IF n <= 0 THEN FromInt(f, 1)
    ELSE IF n = 1 THEN x
    ELSE FMul(f, PowInt(f, x, n - 1), x)

\* x^(num/den) for finite x > 0 and 0 < num/den < 1: the product of the
\* repeated square roots of x selected by the binary expansion of num/den
\* (r / den is the part of the exponent still to expand, t1 = x^(2^-i)).
RECURSIVE PowFrac(_, _, _, _, _, _)
RECURSIVE PowFracBit(_, _, _, _, _, _)
PowFrac(f, t, r, den, k, acc) ==
    IF k = 0 THEN acc ELSE PowFracBit(f, FSqrt(f, t), r, den, k, acc)
PowFracBit(f, t1, r, den, k, acc) ==
    IF 2 * r >= den
    THEN PowFrac(f, t1, 2 * r - den, den, k - 1, FMul(f, acc, t1))
    ELSE PowFrac(f, t1, 2 * r, den, k - 1, acc)

\* pow(x, ip + num/den), ip >= 0, 0 <= num/den < 1.
Pow(f, x, ip, num, den) ==
    IF x.k = "nan" THEN NaN
    ELSE IF num /= 0 /\ x.k = "inf" THEN Inf(1)
    ELSE IF num /= 0 /\ x.m = 0 THEN Zero(1)
    ELSE IF num /= 0 /\ x.s = -1 THEN NaN
    ELSE FMul(f, PowInt(f, x, ip),
              IF num = 0 THEN FromInt(f, 1)
              ELSE PowFrac(f, x, num, den, PowBits, FromInt(f, 1)))

Pi(f) == Ratio(f, 1, 314159265, 100000000)
HalfPi(f) == Ratio(f, 1, 157079633, 100000000)
QuarterPi(f) == Ratio(f, 1, 785398163, 1000000000)

\* The integer nearest to a finite value below 2^20 in magnitude.
ToIntNearest(x) ==
    IF x.m = 0 THEN 0
    ELSE IF x.e >= 0 THEN x.s * x.m * (2 ^ x.e)
    ELSE IF -x.e > 30 THEN 0
    ELSE x.s * (x.m \div (2 ^ (-x.e))
                  + (IF 2 * (x.m % (2 ^ (-x.e))) >= 2 ^ (-x.e) THEN 1 ELSE 0))

\* Argument reduction: x = k * (pi/2) + r with |r| <= pi/4.
ReduceK(f, x) == ToIntNearest(FDiv(f, x, HalfPi(f)))

\* 1 - r2/d[j] * (1 - r2/d[j+1] * (...)): a Taylor polynomial in Horner form.
RECURSIVE Horner(_, _, _, _)
Horner(f, r2, d, j) ==
    IF j > Len(d) THEN FromInt(f, 1)
    ELSE FSub(f, FromInt(f, 1), FMul(f, FDiv(f, r2, FromInt(f, d[j])), Horner(f, r2, d, j + 1)))
\* sin(r) = r * (1 - r^2/6 (1 - r^2/20 (1 - r^2/42))) for an even quadrant q,
\* cos(r) = 1 - r^2/2 (1 - r^2/12 (1 - r^2/30)) for an odd one.
TrigPoly(f, q, r) ==
    FMul(f, IF q % 2 = 0 THEN r ELSE FromInt(f, 1),
         Horner(f, FMul(f, r, r), IF q % 2 = 0 THEN <<6, 20, 42>> ELSE <<2, 12, 30>>, 1))
\* sin(r + q * pi/2), q in 0..3.
NegIf(c, v) == IF c THEN FNeg(v) ELSE v
SinReduced(f, x, k, shift) ==
    NegIf((k + shift) % 4 >= 2,
          TrigPoly(f, (k + shift) % 4, FSub(f, x, FMul(f, FromInt(f, k), HalfPi(f)))))

\* Arguments of 2^20 and more do not occur for the inputs of the model.
TrigInDomain(f, x) == x.k = "fin" /\ FLt(FAbs(x), FromInt(f, 2 ^ 20))

Sin(f, x) ==
    IF ~TrigInDomain(f, x) THEN NaN
    ELSE IF x.m = 0 THEN x
    ELSE SinReduced(f, x, ReduceK(f, x), 0)
\* cos(x) = sin(x + pi/2)
Cos(f, x) ==
    IF ~TrigInDomain(f, x) THEN NaN
    ELSE IF x.m = 0 THEN FromInt(f, 1)
    ELSE SinReduced(f, x, ReduceK(f, x), 1)

\* atan(z) = z (1 - z^2 (1/3 - z^2 (1/5 - z^2/7))) for |z| <= tan(pi/16).
RECURSIVE AtanHorner(_, _, _)
AtanHorner(f, z2, j) ==
    IF j = 3 THEN FSub(f, Ratio(f, 1, 1, 5), FDiv(f, z2, FromInt(f, 7)))
    ELSE FSub(f, Ratio(f, 1, 1, 2 * j - 1), FMul(f, z2, AtanHorner(f, z2, j + 1)))
AtanSmall(f, z) == FMul(f, z, AtanHorner(f, FMul(f, z, z), 1))
\* tan(a/2) from z = tan(a): z / (1 + sqrt(1 + z^2)), n times.
RECURSIVE AtanHalve(_, _, _)
AtanHalve(f, z, n) ==
    IF n = 0 THEN z
    ELSE AtanHalve(f, FDiv(f, z, FAdd(f, FromInt(f, 1),
                                      FSqrt(f, FAdd(f, FromInt(f, 1), FMul(f, z, z))))), n - 1)

\* atan2(y, x) for finite nonzero y and x, without the sign of y: the angle
\* t of the smaller over the larger magnitude z (atan(z) is 4 times the
\* atan of z halved twice), reflected into the octant and the half plane
\* of (x, y).
OctantOf(f, direct, t) == IF direct THEN t ELSE FSub(f, HalfPi(f), t)
Atan2Octant(f, ay, ax) ==
    OctantOf(f, FLe(ay, ax),
             FMul(f, FromInt(f, 4),
                  AtanSmall(f, AtanHalve(f, FDiv(f, IF FLe(ay, ax) THEN ay ELSE ax,
                                                    IF FLe(ay, ax) THEN ax ELSE ay), 2))))
HalfPlaneOf(f, s, a) == IF s = -1 THEN FSub(f, Pi(f), a) ELSE a
Atan2Mag(f, y, x) ==
    IF y.k = "inf" THEN (IF x.k = "inf"
                         THEN (IF x.s = 1 THEN QuarterPi(f)
                               ELSE FMul(f, FromInt(f, 3), QuarterPi(f)))
                         ELSE HalfPi(f))
    ELSE IF x.k = "inf" THEN (IF x.s = 1 THEN Zero(1) ELSE Pi(f))
    ELSE IF y.m = 0 THEN (IF x.s = 1 THEN Zero(1) ELSE Pi(f))
    ELSE IF x.m = 0 THEN HalfPi(f)
    ELSE HalfPlaneOf(f, x.s, Atan2Octant(f, FAbs(y), FAbs(x)))
\* atan2(y, x), in [-pi, pi], with the sign of y.
Atan2(f, y, x) ==
    IF y.k = "nan" \/ x.k = "nan" THEN NaN ELSE WithSign(y.s, Atan2Mag(f, y, x))

(***************************************************************************)
(* Constants of the program                                                *)
(***************************************************************************)
\* A double literal of the source that is an integer.
dbl(n) == FromInt(DBL, n)

Triplet(a, b, c) == [a |-> a, b |-> b, c |-> c]
TripletOf(q) == Triplet(q[1], q[2], q[3])
Bounds(a, b) == [a |-> a, b |-> b]

\* m[channel + 1] is the source's m[channel].
m == << Triplet(Lit(324096994, 8), Lit(-153738318, 8), Lit(-498610760, 9)),
        Triplet(Lit(-969243636, 9), Lit(187596750, 8), Lit(41555057, 9)),
        Triplet(Lit(55630080, 9), Lit(-203976959, 9), Lit(105697151, 8)) >>
m_inv == << Triplet(Lit(412390799, 9), Lit(357584339, 9), Lit(180480788, 9)),
            Triplet(Lit(212639006, 9), Lit(715168679, 9), Lit(72192315, 9)),
            Triplet(Lit(19330819, 9), Lit(119194780, 9), Lit(950532152, 9)) >>
pi == Lit(314159265, 8)
ref_u == Lit(197830007, 9)
ref_v == Lit(468319995, 9)
kappa == Lit(903296296, 6)
epsilon == Lit(8856452, 9)
\* <float.h>: the largest finite float.
FLT_MAX == Fin(1, 2 ^ FltBits - 1, FLT.emax)

\* The test  x < 0.00000001  of the black and gray guards.
BelowTiny(x) == FLt(x, Lit(1, 8))

(***************************************************************************)
(* The static functions, as the source computes them                       *)
(***************************************************************************)
\* sub2 from sub1.
get_bounds_pick(sub1, l) == IF FGt(sub1, epsilon) THEN sub1 ELSE FDiv(DBL, l, kappa)
get_bounds_sub2(l) ==
    get_bounds_pick(FDiv(DBL, Pow(DBL, FAdd(DBL, l, dbl(16)), 3, 0, 1), dbl(1560896)), l)

\* top1, top2 and bottom of one pass of the inner loop; row is m[channel].
get_bounds_pass(row, t, l, sub2) ==
    [top1 |-> FMul(DBL, FSub(DBL, FMul(DBL, dbl(284517), row.a), FMul(DBL, dbl(94839), row.c)), sub2),
     top2 |-> FSub(DBL,
                   FMul(DBL, FMul(DBL, FAdd(DBL, FAdd(DBL, FMul(DBL, dbl(838422), row.c),
                                                      FMul(DBL, dbl(769860), row.b)),
                                            FMul(DBL, dbl(731718), row.a)), l), sub2),
                   FMul(DBL, FMul(DBL, dbl(769860), dbl(t)), l)),
     bottom |-> FAdd(DBL, FMul(DBL, FSub(DBL, FMul(DBL, dbl(632260), row.c),
                                         FMul(DBL, dbl(126452), row.b)), sub2),
                     FMul(DBL, dbl(126452), dbl(t)))]
\* bounds[channel * 2 + t] as the pass stores it.
get_bounds_store(p) == Bounds(FDiv(DBL, p.top1, p.bottom), FDiv(DBL, p.top2, p.bottom))
get_bounds_locals(l, channel, t) == get_bounds_pass(m[channel + 1], t, l, get_bounds_sub2(l))
get_bounds(l, channel, t) == get_bounds_store(get_bounds_locals(l, channel, t))

intersect_line_line(line1, line2) ==
    FDiv(DBL, FSub(DBL, line1.b, line2.b), FSub(DBL, line2.a, line1.a))

dist_from_pole(x, y) == FSqrt(DBL, FAdd(DBL, FMul(DBL, x, x), FMul(DBL, y, y)))

ray_length_divisor(theta, line) ==
    FSub(DBL, Sin(DBL, theta), FMul(DBL, line.a, Cos(DBL, theta)))
ray_length_over(line, divisor) == FDiv(DBL, line.b, divisor)
ray_length_until_intersect(theta, line) == ray_length_over(line, ray_length_divisor(theta, line))

\* A faulty variant of the loop body below, without the test d >= 0.
min_len_update_unsigned(min_len, d) == IF FLt(d, min_len) THEN d ELSE min_len
\* The body of both search loops:  if(d >= 0) { if(d < min_len) min_len = d; }
min_len_update(min_len, d) ==
    IF FGe(d, Zero(1)) THEN (IF FLt(d, min_len) THEN d ELSE min_len) ELSE min_len

\* max_safe_chroma_for_l: line2, and the distance computed for bounds[i].
max_safe_line2(line) == Bounds(FDiv(DBL, dbl(-1), line.a), Zero(1))
max_safe_from(line, x) == dist_from_pole(x, FAdd(DBL, line.b, FMul(DBL, x, line.a)))
max_safe_distance(line) == max_safe_from(line, intersect_line_line(line, max_safe_line2(line)))

\* max_chroma_for_lh: hrad.
max_chroma_hrad(h) == FMul(DBL, FMul(DBL, FDiv(DBL, h, dbl(360)), pi), dbl(2))

dot_product(t1, t2) ==
    FAdd(DBL, FAdd(DBL, FMul(DBL, t1.a, t2.a), FMul(DBL, t1.b, t2.b)), FMul(DBL, t1.c, t2.c))

from_linear(c) ==
    IF FLe(c, Lit(31308, 7)) THEN FMul(DBL, Lit(1292, 2), c)
    ELSE FSub(DBL, FMul(DBL, Lit(1055, 3), Pow(DBL, c, 0, 5, 12)), Lit(55, 3))

to_linear(c) ==
    IF FGt(c, Lit(4045, 5))
    THEN Pow(DBL, FDiv(DBL, FAdd(DBL, c, Lit(55, 3)), FAdd(DBL, dbl(1), Lit(55, 3))), 2, 2, 5)
    ELSE FDiv(DBL, c, Lit(1292, 2))

xyz2rgb(in) == TripletOf([j \in 1..3 |-> from_linear(dot_product(m[j], in))])

rgb2xyz_of(rgbl) == TripletOf([j \in 1..3 |-> dot_product(m_inv[j], rgbl)])
rgb2xyz(in) == rgb2xyz_of(TripletOf([j \in 1..3 |-> to_linear(<<in.a, in.b, in.c>>[j])]))

\* powl: long double has the width of double here.
y2l(y) ==
    IF FLe(y, epsilon) THEN FMul(DBL, y, kappa)
    ELSE FSub(DBL, FMul(DBL, dbl(116), Pow(DBL, y, 0, 1, 3)), dbl(16))

l2y(l) ==
    IF FLe(l, dbl(8)) THEN FDiv(DBL, l, kappa)
    ELSE Pow(DBL, FDiv(DBL, FAdd(DBL, l, dbl(16)), dbl(116)), 3, 0, 1)

\* The divisor of var_u and of var_v, evaluated before any test of l.
xyz2luv_divisor(in) ==
    FAdd(DBL, FAdd(DBL, in.a, FMul(DBL, dbl(15), in.b)), FMul(DBL, dbl(3), in.c))
xyz2luv_from(l, var_u, var_v) ==
    IF BelowTiny(l) THEN Triplet(l, Zero(1), Zero(1))
    ELSE Triplet(l, FMul(DBL, FMul(DBL, dbl(13), l), FSub(DBL, var_u, ref_u)),
                    FMul(DBL, FMul(DBL, dbl(13), l), FSub(DBL, var_v, ref_v)))
xyz2luv(in) ==
    xyz2luv_from(y2l(in.b), FDiv(DBL, FMul(DBL, dbl(4), in.a), xyz2luv_divisor(in)),
                            FDiv(DBL, FMul(DBL, dbl(9), in.b), xyz2luv_divisor(in)))

luv2xyz_guard(in) == FLe(in.a, Lit(1, 8))
luv2xyz_var_u(in) == FAdd(DBL, FDiv(DBL, in.b, FMul(DBL, dbl(13), in.a)), ref_u)
luv2xyz_var_v(in) == FAdd(DBL, FDiv(DBL, in.c, FMul(DBL, dbl(13), in.a)), ref_v)
luv2xyz_x_divisor(var_u, var_v) ==
    FSub(DBL, FMul(DBL, FSub(DBL, var_u, dbl(4)), var_v), FMul(DBL, var_u, var_v))
luv2xyz_z_divisor(var_v) == FMul(DBL, dbl(3), var_v)
\* (x, y, z) from x.
luv2xyz_xyz(y, var_v, x) ==
    Triplet(x, y,
            FDiv(DBL, FSub(DBL, FSub(DBL, FMul(DBL, dbl(9), y),
                                     FMul(DBL, FMul(DBL, dbl(15), var_v), y)),
                           FMul(DBL, var_v, x)),
                 luv2xyz_z_divisor(var_v)))
luv2xyz_from(y, var_u, var_v) ==
    luv2xyz_xyz(y, var_v, FDiv(DBL, FNeg(FMul(DBL, FMul(DBL, dbl(9), y), var_u)),
                               luv2xyz_x_divisor(var_u, var_v)))
\* A faulty variant of luv2xyz below, without the guard for black.
luv2xyz_unguarded(in) == luv2xyz_from(l2y(in.a), luv2xyz_var_u(in), luv2xyz_var_v(in))
luv2xyz(in) ==
    IF luv2xyz_guard(in) THEN Triplet(Zero(1), Zero(1), Zero(1))
    ELSE luv2xyz_from(l2y(in.a), luv2xyz_var_u(in), luv2xyz_var_v(in))

\* sqrtf and powf compute in float; the float result widens to double.
\* if(h < 0.0) h += 360.0;
luv2lch_wrap(h) == IF FLt(h, Zero(1)) THEN FAdd(DBL, h, dbl(360)) ELSE h
\* (l, c, h) from c.
luv2lch_store(in, c) ==
    Triplet(in.a, c,
            IF BelowTiny(c) THEN Zero(1)
            ELSE luv2lch_wrap(FMul(DBL, Atan2(DBL, in.c, in.b),
                                   FDiv(DBL, FDiv(DBL, dbl(360), dbl(2)), pi))))
luv2lch(in) ==
    luv2lch_store(in, Cvt(DBL, FSqrt(FLT, FAdd(FLT, PowInt(FLT, Cvt(FLT, in.b), 2),
                                               PowInt(FLT, Cvt(FLT, in.c), 2)))))

\* cosf and sinf take and return a float; the product is a double product.
lch2luv_at(in, hradf) ==
    Triplet(in.a, FMul(DBL, Cvt(DBL, Cos(FLT, hradf)), in.b),
                  FMul(DBL, Cvt(DBL, Sin(FLT, hradf)), in.b))
lch2luv(in) ==
    lch2luv_at(in, Cvt(FLT, FMul(DBL, in.c, FDiv(DBL, FMul(DBL, dbl(2), pi), dbl(360)))))

\* The guard of the four converters below: white or black, that is
\* l > 99.9999999 || l < 0.00000001.  No value of fewer than 30 significand
\* bits lies strictly between 99.9999999 and 100, so the first test is
\* l >= 100.
white_or_black(l) == FGe(l, dbl(100)) \/ BelowTiny(l)

\* Faulty variants of chroma_of below: the factor s dropped; s and 100.0 swapped.
chroma_of_unscaled(mc, s) == FDiv(DBL, mc, dbl(100))
chroma_of_swapped(mc, s) == FMul(DBL, FDiv(DBL, mc, s), dbl(100))
\* c of hsluv2lch and hpluv2lch from the maximum chroma mc:  mc / 100.0 * s
chroma_of(mc, s) == FMul(DBL, FDiv(DBL, mc, dbl(100)), s)
\* s of lch2hsluv and lch2hpluv from the maximum chroma mc:  c / mc * 100.0
saturation_of(c, mc) == FMul(DBL, FDiv(DBL, c, mc), dbl(100))

\* mc is what max_chroma_for_lh(l, h) returned; it is not called, and mc is
\* not read, when l is white or black.  in is (h, s, l), the result (l, c, h).
hsluv2lch(in, mc) ==
    Triplet(in.c,
            IF white_or_black(in.c) THEN Zero(1) ELSE chroma_of(mc, in.b),
            IF BelowTiny(in.b) THEN Zero(1) ELSE in.a)

\* in is (l, c, h), the result (h, s, l).
lch2hsluv(in, mc) ==
    Triplet(IF BelowTiny(in.b) THEN Zero(1) ELSE in.c,
            IF white_or_black(in.a) THEN Zero(1) ELSE saturation_of(in.b, mc),
            in.a)

\* mc is what max_safe_chroma_for_l(l) returned.
hpluv2lch(in, mc) ==
    Triplet(in.c,
            IF white_or_black(in.c) THEN Zero(1) ELSE chroma_of(mc, in.b),
            IF BelowTiny(in.b) THEN Zero(1) ELSE in.a)

lch2hpluv(in, mc) ==
    Triplet(IF BelowTiny(in.b) THEN Zero(1) ELSE in.c,
            IF white_or_black(in.a) THEN Zero(1) ELSE saturation_of(in.b, mc),
            in.a)

\* The whole of max_chroma_for_lh and of max_safe_chroma_for_l, loops folded.
RECURSIVE max_chroma_fold(_, _, _, _)
max_chroma_fold(l, h, i, min_len) ==
    IF i = 6 THEN min_len
    ELSE max_chroma_fold(l, h, i + 1,
             min_len_update(min_len, ray_length_until_intersect(max_chroma_hrad(h),
                                                                get_bounds(l, i \div 2, i % 2))))
max_chroma_for_lh(l, h) == max_chroma_fold(l, h, 0, FLT_MAX)
RECURSIVE max_safe_fold(_, _, _)
max_safe_fold(l, i, min_len) ==
    IF i = 6 THEN min_len
    ELSE max_safe_fold(l, i + 1,
             min_len_update(min_len, max_safe_distance(get_bounds(l, i \div 2, i % 2))))
max_safe_chroma_for_l(l) == max_safe_fold(l, 0, FLT_MAX)

\* The public functions as functions of their arguments.
hsluv2rgb(x) == xyz2rgb(luv2xyz(lch2luv(hsluv2lch(x, max_chroma_for_lh(x.c, x.a)))))
hpluv2rgb(x) == xyz2rgb(luv2xyz(lch2luv(hpluv2lch(x, max_safe_chroma_for_l(x.c)))))
rgb2lch(x) == luv2lch(xyz2luv(rgb2xyz(x)))
lch_to_hsluv(lch) == lch2hsluv(lch, max_chroma_for_lh(lch.a, lch.c))
lch_to_hpluv(lch) == lch2hpluv(lch, max_safe_chroma_for_l(lch.a))
rgb2hsluv(x) == lch_to_hsluv(rgb2lch(x))
rgb2hpluv(x) == lch_to_hpluv(rgb2lch(x))

(***************************************************************************)
(* The program as a state machine: calls of the four public functions,     *)
(* each in its own thread                                                  *)
(***************************************************************************)
Threads == {1, 2}

VARIABLES
    pc,         \* per thread: where its call stands
    fn,         \* per thread: the public function it runs ("none" when idle)
    arg,        \* per thread: the three arguments of the call
    tmp,        \* the Triplet tmp of the public function's frame, per storage cell
    out,        \* per thread: what was stored through the three result pointers
    bounds,     \* per thread: Bounds bounds[6] of the chroma function, as filled so far
    i,          \* per thread: the index i of the search loop
    min_len,    \* per thread: min_len of the chroma function
    zdiv,       \* per thread: the call has evaluated a division by zero
    gb_iters,   \* per thread: bodies of the loop of get_bounds executed by the call
    loop_iters, \* per thread: bodies of the search loop executed by the call
    steps,      \* per thread: steps taken by the call
    writes,     \* the stores performed by the calls in progress
    origin      \* per thread: <<rgb>> when the call converts back the result of
                \* a call on rgb, <<>> otherwise

vars == <<pc, fn, arg, tmp, out, bounds, i, min_len, zdiv, gb_iters, loop_iters, steps, writes, origin>>

\* A faulty variant of TmpCell below: tmp with static storage, one object
\* for all calls.
TmpCell_static(t) == 1
\* The storage of tmp: automatic, one object per call frame.
TmpCell(t) == t

ZeroTriplet == Triplet(Zero(1), Zero(1), Zero(1))

\* The converters a public function applies to tmp, in order.
Body(f) ==
    CASE f = "hsluv2rgb" -> <<"hsluv2lch", "lch2luv", "luv2xyz", "xyz2rgb">>
      [] f = "hpluv2rgb" -> <<"hpluv2lch", "lch2luv", "luv2xyz", "xyz2rgb">>
      [] f = "rgb2hsluv" -> <<"rgb2xyz", "xyz2luv", "luv2lch", "lch2hsluv">>
      [] f = "rgb2hpluv" -> <<"rgb2xyz", "xyz2luv", "luv2lch", "lch2hpluv">>
After(f, name) ==
    LET k == CHOOSE j \in 1..4 : Body(f)[j] = name
    IN  IF k = 4 THEN "store" ELSE Body(f)[k + 1]

\* The converter of f that calls a chroma function, and what it passes.
ChromaConv(f) ==
    CASE f = "hsluv2rgb" -> "hsluv2lch"
      [] f = "hpluv2rgb" -> "hpluv2lch"
      [] f = "rgb2hsluv" -> "lch2hsluv"
      [] f = "rgb2hpluv" -> "lch2hpluv"
ChromaFn(f) ==
    IF f \in {"hsluv2rgb", "rgb2hsluv"} THEN "max_chroma_for_lh" ELSE "max_safe_chroma_for_l"
ChromaL(f, in) == IF f \in {"hsluv2rgb", "hpluv2rgb"} THEN in.c ELSE in.a
ChromaH(f, in) == IF f \in {"hsluv2rgb", "hpluv2rgb"} THEN in.a ELSE in.c
ChromaResult(f, in, mc) ==
    CASE f = "hsluv2rgb" -> hsluv2lch(in, mc)
      [] f = "hpluv2rgb" -> hpluv2lch(in, mc)
      [] f = "rgb2hsluv" -> lch2hsluv(in, mc)
      [] f = "rgb2hpluv" -> lch2hpluv(in, mc)

\* A store: by function `by` of thread t's call into a local of function `owner`.
Wr(t, by, owner, kind, cell) ==
    [thread |-> t, by |-> by, owner |-> owner, kind |-> kind, cell |-> cell]

luv2xyz_zero_divisor(in) ==
    /\ ~luv2xyz_guard(in)
    /\ \/ IsZero(FMul(DBL, dbl(13), in.a))
       \/ IsZero(luv2xyz_x_divisor(luv2xyz_var_u(in), luv2xyz_var_v(in)))
       \/ IsZero(luv2xyz_z_divisor(luv2xyz_var_v(in)))
max_safe_zero_divisor(line) ==
    IsZero(line.a) \/ IsZero(FSub(DBL, max_safe_line2(line).a, line.a))

Init ==
    /\ pc = [t \in Threads |-> "idle"]
    /\ fn = [t \in Threads |-> "none"]
    /\ arg = [t \in Threads |-> ZeroTriplet]
    /\ tmp = [t \in Threads |-> ZeroTriplet]
    /\ out = [t \in Threads |-> ZeroTriplet]
    /\ bounds = [t \in Threads |-> <<>>]
    /\ i = [t \in Threads |-> 0]
    /\ min_len = [t \in Threads |-> FLT_MAX]
    /\ zdiv = [t \in Threads |-> FALSE]
    /\ gb_iters = [t \in Threads |-> 0]
    /\ loop_iters = [t \in Threads |-> 0]
    /\ steps = [t \in Threads |-> 0]
    /\ writes = {}
    /\ origin = [t \in Threads |-> <<>>]

\* Entry of a public function:  Triplet tmp = { x, y, z };
Call(t, f, x) ==
    /\ pc[t] = "idle"
    /\ fn' = [fn EXCEPT ![t] = f]
    /\ arg' = [arg EXCEPT ![t] = x]
    /\ tmp' = [tmp EXCEPT ![TmpCell(t)] = x]
    /\ pc' = [pc EXCEPT ![t] = Body(f)[1]]
    /\ steps' = [steps EXCEPT ![t] = 1]
    /\ writes' = writes \cup {Wr(t, f, f, "tmp", TmpCell(t))}
    /\ UNCHANGED <<origin, out, bounds, i, min_len, zdiv, gb_iters, loop_iters>>

\* A converter finishes: it stores its result through in_out, that is into tmp.
Finish(t, name, result, zero) ==
    /\ tmp' = [tmp EXCEPT ![TmpCell(t)] = result]
    /\ pc' = [pc EXCEPT ![t] = After(fn[t], name)]
    /\ zdiv' = [zdiv EXCEPT ![t] = @ \/ zero]
    /\ steps' = [steps EXCEPT ![t] = @ + 1]
    /\ writes' = writes \cup {Wr(t, name, fn[t], "tmp", TmpCell(t))}
    /\ UNCHANGED <<origin, fn, arg, out, bounds, i, min_len, gb_iters, loop_iters>>

Step_lch2luv(t) ==
    /\ pc[t] = "lch2luv"
    /\ Finish(t, "lch2luv", lch2luv(tmp[TmpCell(t)]), FALSE)
Step_luv2xyz(t) ==
    /\ pc[t] = "luv2xyz"
    /\ Finish(t, "luv2xyz", luv2xyz(tmp[TmpCell(t)]), luv2xyz_zero_divisor(tmp[TmpCell(t)]))
Step_xyz2rgb(t) ==
    /\ pc[t] = "xyz2rgb"
    /\ Finish(t, "xyz2rgb", xyz2rgb(tmp[TmpCell(t)]), FALSE)
Step_rgb2xyz(t) ==
    /\ pc[t] = "rgb2xyz"
    /\ Finish(t, "rgb2xyz", rgb2xyz(tmp[TmpCell(t)]), FALSE)
Step_xyz2luv(t) ==
    /\ pc[t] = "xyz2luv"
    /\ Finish(t, "xyz2luv", xyz2luv(tmp[TmpCell(t)]), IsZero(xyz2luv_divisor(tmp[TmpCell(t)])))
Step_luv2lch(t) ==
    /\ pc[t] = "luv2lch"
    /\ Finish(t, "luv2lch", luv2lch(tmp[TmpCell(t)]), FALSE)

\* hsluv2lch, lch2hsluv, hpluv2lch, lch2hpluv up to the test of l: white or
\* black finishes the converter, any other l calls the chroma function.
Enter_chroma_conv(t) ==
    /\ pc[t] \in {"hsluv2lch", "hpluv2lch", "lch2hsluv", "lch2hpluv"}
    /\ IF white_or_black(ChromaL(fn[t], tmp[TmpCell(t)]))
       THEN Finish(t, pc[t], ChromaResult(fn[t], tmp[TmpCell(t)], NaN), FALSE)
       ELSE /\ pc' = [pc EXCEPT ![t] = "get_bounds"]
            /\ min_len' = [min_len EXCEPT ![t] = FLT_MAX]
            /\ bounds' = [bounds EXCEPT ![t] = <<>>]
            /\ i' = [i EXCEPT ![t] = 0]
            /\ steps' = [steps EXCEPT ![t] = @ + 1]
            /\ UNCHANGED <<origin, fn, arg, tmp, out, zdiv, gb_iters, loop_iters, writes>>

\* One pass of the inner loop of get_bounds: it fills bounds[channel * 2 + t]
\* from its locals p.
Fill_bounds(t, p) ==
    /\ bounds' = [bounds EXCEPT ![t] = Append(@, get_bounds_store(p))]
    /\ zdiv' = [zdiv EXCEPT ![t] = @ \/ IsZero(p.bottom)]
    /\ pc' = [pc EXCEPT ![t] = IF Len(bounds[t]) + 1 = 6 THEN ChromaFn(fn[t]) ELSE @]
    /\ gb_iters' = [gb_iters EXCEPT ![t] = @ + 1]
    /\ steps' = [steps EXCEPT ![t] = @ + 1]
    /\ writes' = writes \cup {Wr(t, "get_bounds", ChromaFn(fn[t]), "bounds", t)}
    /\ UNCHANGED <<origin, fn, arg, tmp, out, i, min_len, loop_iters>>
Iter_get_bounds(t) ==
    /\ pc[t] = "get_bounds"
    /\ Fill_bounds(t, get_bounds_locals(ChromaL(fn[t], tmp[TmpCell(t)]),
                                        Len(bounds[t]) \div 2, Len(bounds[t]) % 2))

\* A faulty variant of search_continues below: one pass too many.
search_continues_once_more(n) == n <= 6
\* The test of both search loops:  i < 6
search_continues(n) == n < 6

\* What every pass of a search loop does besides computing its distance d.
SearchPass(t, d, zero) ==
    /\ min_len' = [min_len EXCEPT ![t] = min_len_update(@, d)]
    /\ i' = [i EXCEPT ![t] = @ + 1]
    /\ pc' = [pc EXCEPT ![t] = IF search_continues(i[t] + 1) THEN @ ELSE "chroma_return"]
    /\ zdiv' = [zdiv EXCEPT ![t] = @ \/ zero]
    /\ loop_iters' = [loop_iters EXCEPT ![t] = @ + 1]
    /\ steps' = [steps EXCEPT ![t] = @ + 1]
    /\ UNCHANGED <<origin, fn, arg, tmp, out, bounds, gb_iters, writes>>

\* One pass of the loop of max_chroma_for_lh.
Ray_pass(t, line, divisor) == SearchPass(t, ray_length_over(line, divisor), IsZero(divisor))
Iter_max_chroma_for_lh(t) ==
    /\ pc[t] = "max_chroma_for_lh"
    /\ Ray_pass(t, bounds[t][i[t] + 1],
                ray_length_divisor(max_chroma_hrad(ChromaH(fn[t], tmp[TmpCell(t)])),
                                   bounds[t][i[t] + 1]))

\* One pass of the loop of max_safe_chroma_for_l.
Iter_max_safe_chroma_for_l(t) ==
    /\ pc[t] = "max_safe_chroma_for_l"
    /\ SearchPass(t, max_safe_distance(bounds[t][i[t] + 1]),
                  max_safe_zero_divisor(bounds[t][i[t] + 1]))

\* The chroma function returns min_len; the converter that called it finishes.
Return_chroma(t) ==
    /\ pc[t] = "chroma_return"
    /\ Finish(t, ChromaConv(fn[t]), ChromaResult(fn[t], tmp[TmpCell(t)], min_len[t]),
              fn[t] \in {"rgb2hsluv", "rgb2hpluv"} /\ IsZero(min_len[t]))

\* *pr = tmp.a; *pg = tmp.b; *pb = tmp.c;  (or ph, ps, pl)
Store(t) ==
    /\ pc[t] = "store"
    /\ out' = [out EXCEPT ![t] = tmp[TmpCell(t)]]
    /\ pc' = [pc EXCEPT ![t] = "done"]
    /\ steps' = [steps EXCEPT ![t] = @ + 1]
    /\ writes' = writes \cup {Wr(t, fn[t], "caller", "out", t)}
    /\ UNCHANGED <<origin, fn, arg, tmp, bounds, i, min_len, zdiv, gb_iters, loop_iters>>

\* The public function has returned; its frame is gone and the thread is
\* free for another call.
Reset(t) ==
    /\ pc[t] = "done"
    /\ pc' = [pc EXCEPT ![t] = "idle"]
    /\ fn' = [fn EXCEPT ![t] = "none"]
    /\ arg' = [arg EXCEPT ![t] = ZeroTriplet]
    /\ tmp' = [tmp EXCEPT ![TmpCell(t)] = ZeroTriplet]
    /\ out' = [out EXCEPT ![t] = ZeroTriplet]
    /\ bounds' = [bounds EXCEPT ![t] = <<>>]
    /\ i' = [i EXCEPT ![t] = 0]
    /\ min_len' = [min_len EXCEPT ![t] = FLT_MAX]
    /\ zdiv' = [zdiv EXCEPT ![t] = FALSE]
    /\ gb_iters' = [gb_iters EXCEPT ![t] = 0]
    /\ loop_iters' = [loop_iters EXCEPT ![t] = 0]
    /\ steps' = [steps EXCEPT ![t] = 0]
    /\ writes' = {w \in writes : w.thread /= t}
    /\ origin' = [origin EXCEPT ![t] = <<>>]

\* The documented ranges of the arguments.
In01(x) == FGe(x, Zero(1)) /\ FLe(x, dbl(1))
InRangeHsl(x) ==
    /\ FGe(x.a, Zero(1)) /\ FLt(x.a, dbl(360))
    /\ FGe(x.b, Zero(1)) /\ FLe(x.b, dbl(100))
    /\ FGe(x.c, Zero(1)) /\ FLe(x.c, dbl(100))
InRangeRgb(x) == In01(x.a) /\ In01(x.b) /\ In01(x.c)
InRange(f, x) == IF f \in {"hsluv2rgb", "hpluv2rgb"} THEN InRangeHsl(x) ELSE InRangeRgb(x)

\* The inverse of a public function of rgb.
Inverse(f) == IF f = "rgb2hsluv" THEN "hsluv2rgb" ELSE "hpluv2rgb"
\* A caller passes what rgb2hsluv or rgb2hpluv stored for an rgb inside the
\* cube to hsluv2rgb or hpluv2rgb: the first call's frame is gone, the
\* second call starts.
RoundTrip(t) ==
    /\ pc[t] = "done"
    /\ fn[t] \in {"rgb2hsluv", "rgb2hpluv"}
    /\ InRangeRgb(arg[t])
    /\ origin' = [origin EXCEPT ![t] = <<arg[t]>>]
    /\ fn' = [fn EXCEPT ![t] = Inverse(fn[t])]
    /\ arg' = [arg EXCEPT ![t] = out[t]]
    /\ tmp' = [tmp EXCEPT ![TmpCell(t)] = out[t]]
    /\ pc' = [pc EXCEPT ![t] = Body(Inverse(fn[t]))[1]]
    /\ out' = [out EXCEPT ![t] = ZeroTriplet]
    /\ bounds' = [bounds EXCEPT ![t] = <<>>]
    /\ i' = [i EXCEPT ![t] = 0]
    /\ min_len' = [min_len EXCEPT ![t] = FLT_MAX]
    /\ zdiv' = [zdiv EXCEPT ![t] = FALSE]
    /\ gb_iters' = [gb_iters EXCEPT ![t] = 0]
    /\ loop_iters' = [loop_iters EXCEPT ![t] = 0]
    /\ steps' = [steps EXCEPT ![t] = 1]
    /\ writes' = {w \in writes : w.thread /= t}
                     \cup {Wr(t, Inverse(fn[t]), Inverse(fn[t]), "tmp", TmpCell(t))}

(***************************************************************************)
(* Inputs and specifications                                               *)
(***************************************************************************)
\* Arguments of hsluv2rgb and hpluv2rgb: in range, at the ends of the range,
\* and not finite.
HslInputs ==
    {Triplet(h, s, l) : h \in {dbl(0), dbl(200), dbl(359), Inf(1)},
                        s \in {dbl(0), dbl(50), dbl(100), NaN},
                        l \in {dbl(0), dbl(50), dbl(75), dbl(100), NaN}}

\* Arguments of rgb2hsluv and rgb2hpluv: the corners, edge and face centres
\* of the RGB cube, one colour of hue just below 360 degrees, one NaN.
Sixteenth(k) == Ratio(DBL, 1, k, 16)
RgbInputs ==
    {Triplet(Sixteenth(r), Sixteenth(g), Sixteenth(b)) : r \in {0, 8, 16}, g \in {0, 8, 16}, b \in {0, 8, 16}}
      \cup {Triplet(Sixteenth(10), Sixteenth(3), Sixteenth(5)), Triplet(NaN, Sixteenth(8), Sixteenth(8))}

Calls ==
    ({"hsluv2rgb", "hpluv2rgb"} \X HslInputs) \cup ({"rgb2hsluv", "rgb2hpluv"} \X RgbInputs)

\* The calls that two threads make concurrently.
ConcCalls ==
    { <<"hsluv2rgb", Triplet(dbl(200), dbl(50), dbl(50))>>,
      <<"hpluv2rgb", Triplet(dbl(359), dbl(100), dbl(75))>>,
      <<"rgb2hsluv", Triplet(Sixteenth(16), Sixteenth(0), Sixteenth(0))>>,
      <<"rgb2hpluv", Triplet(Sixteenth(8), Sixteenth(8), Sixteenth(16))>> }

Next ==
    \/ \E c \in Calls : Call(1, c[1], c[2])
    \/ Enter_chroma_conv(1)
    \/ Iter_get_bounds(1)
    \/ Iter_max_chroma_for_lh(1)
    \/ Iter_max_safe_chroma_for_l(1)
    \/ Return_chroma(1)
    \/ Step_lch2luv(1)
    \/ Step_luv2xyz(1)
    \/ Step_xyz2rgb(1)
    \/ Step_rgb2xyz(1)
    \/ Step_xyz2luv(1)
    \/ Step_luv2lch(1)
    \/ Store(1)
    \/ Reset(1)
    \/ RoundTrip(1)

Spec == Init /\ [][Next]_vars

\* A step of the call of thread t: each of them counts in steps. A thread
\* that is inside a call keeps executing it: nothing in the code waits for
\* anything, so the call takes its next step as long as it has not returned.
Tick(t) ==
    /\ pc[t] \notin {"idle", "done"}
    /\ steps' = [steps EXCEPT ![t] = @ + 1]
SpecLive == Init /\ [][Next]_vars /\ WF_steps(Tick(1))

NextConc ==
    \E t \in Threads :
        \/ \E c \in ConcCalls : Call(t, c[1], c[2])
        \/ Enter_chroma_conv(t)
        \/ Iter_get_bounds(t)
        \/ Iter_max_chroma_for_lh(t)
        \/ Iter_max_safe_chroma_for_l(t)
        \/ Return_chroma(t)
        \/ Step_lch2luv(t)
        \/ Step_luv2xyz(t)
        \/ Step_xyz2rgb(t)
        \/ Step_rgb2xyz(t)
        \/ Step_xyz2luv(t)
        \/ Step_luv2lch(t)
        \/ Store(t)
        \/ Reset(t)

SpecConc == Init /\ [][NextConc]_vars

(***************************************************************************)
(* Properties                                                              *)
(***************************************************************************)
Done(t) == pc[t] = "done"
IsHslCall(t) == fn[t] \in {"hsluv2rgb", "hpluv2rgb"}
IsRgbCall(t) == fn[t] \in {"rgb2hsluv", "rgb2hpluv"}

\* a and b differ by at most k units of the last place of the larger one.
UlpExp(a) == IF a.m = 0 THEN DBL.emin ELSE a.e
WithinUlps(a, b, k) ==
    /\ IsFinite(a) /\ IsFinite(b)
    /\ FLe(FAbs(FSub(DBL, a, b)), Fin(1, k, Max(UlpExp(a), UlpExp(b))))
\* The rounding error allowed to a result of the conversions, in units of
\* the last place.
RoundingUlps == 2 ^ 4

One == dbl(1)
Hundred == dbl(100)
\* What luv2xyz and xyz2rgb make of lightness l without chroma.
GrayRGB(l) == xyz2rgb(luv2xyz(Triplet(l, Zero(1), Zero(1))))
NearlyEqualChannels(x) ==
    /\ WithinUlps(x.a, x.b, RoundingUlps)
    /\ WithinUlps(x.b, x.c, RoundingUlps)
    /\ WithinUlps(x.a, x.c, RoundingUlps)

\* The hue that reaches lch2luv: hsluv2lch and hpluv2lch replace h by 0
\* when s < 0.00000001.
HueIsUsable(x) == IsFinite(x.a) \/ BelowTiny(x.b)
NaNTriplet == Triplet(NaN, NaN, NaN)
SatGrid == {dbl(10 * k) : k \in 0..10}
\* hsluv2lch has just returned in thread t, from an in-range call.
AfterHsluv2lch(t) == fn[t] = "hsluv2rgb" /\ pc[t] = "lch2luv" /\ InRangeHsl(arg[t])
ChromaMonotone(mc) ==
    \A s1, s2 \in SatGrid : FLe(s1, s2) => FLe(chroma_of(mc, s1), chroma_of(mc, s2))
\* C5 as amended: for fixed (h, l), l neither white nor black, the chroma of
\* hsluv2lch is max_chroma_for_lh(l, h) / 100 * s: it does not decrease as s
\* grows from 0 to 100, and at s = 100 it equals max_chroma_for_lh(l, h) up
\* to one unit of the last place; at white and black the chroma is 0 for
\* every s.
C5_Saturation ==
    \A t \in Threads :
        AfterHsluv2lch(t) =>
            IF white_or_black(arg[t].c) THEN IsZero(tmp[TmpCell(t)].b)
            ELSE /\ tmp[TmpCell(t)].b = chroma_of(min_len[t], arg[t].b)
                 /\ ChromaMonotone(min_len[t])
                 /\ FEq(arg[t].b, Hundred) => WithinUlps(tmp[TmpCell(t)].b, min_len[t], 1)
C5_Witness ==
    /\ AfterHsluv2lch(1)
    /\ arg[1] = Triplet(dbl(359), Hundred, dbl(75))
    /\ tmp[TmpCell(1)].b /= min_len[1]
\* C5 as stated: the chroma does not decrease in s, and at s = 100 it is
\* exactly max_chroma_for_lh(l, h).
C5_AsStated ==
    \A t \in Threads :
        (AfterHsluv2lch(t) /\ ~white_or_black(arg[t].c)) =>
            /\ ChromaMonotone(min_len[t])
            /\ FEq(arg[t].b, Hundred) => FEq(tmp[TmpCell(t)].b, min_len[t])

\* C6: for every (r,g,b) in [0,1]^3 the hue that rgb2hsluv and rgb2hpluv
\* return is at least 0 and below 360, and it is 0 when the chroma that
\* luv2lch computed is below 1e-8.
C6_HueRange ==
    \A t \in Threads :
        (IsRgbCall(t) /\ InRangeRgb(arg[t])) =>
            /\ Done(t) => (FGe(out[t].a, Zero(1)) /\ FLt(out[t].a, dbl(360)))
            /\ (pc[t] \in {"lch2hsluv", "lch2hpluv"} /\ BelowTiny(tmp[TmpCell(t)].b)) =>
                   IsZero(tmp[TmpCell(t)].c)

\* C7: no call with in-range arguments evaluates a division whose divisor
\* is zero.
C7_NoZeroDivisor ==
    \A t \in Threads : (fn[t] /= "none" /\ InRange(fn[t], arg[t])) => ~zdiv[t]

\* The tolerance of a round trip: the square root of the unit roundoff of
\* a double, as 1e-8 is for the 53 bits of the code's doubles.
RoundTripTolerance == Fin(1, 1, 0 - (MantBits \div 2))
Within(a, b, tol) == IsFinite(a) /\ IsFinite(b) /\ FLe(FAbs(FSub(DBL, a, b)), tol)
IsBlackOrWhite(x) ==
    \/ x = ZeroTriplet
    \/ x = Triplet(One, One, One)
\* C1: converting an rgb of [0,1]^3 with rgb2hsluv (rgb2hpluv) and the
\* result back with hsluv2rgb (hpluv2rgb) reproduces every channel within
\* the tolerance, and reproduces black and white exactly.
C1_RoundTrip ==
    \A t \in Threads :
        (Done(t) /\ origin[t] /= <<>>) =>
            /\ Within(out[t].a, origin[t][1].a, RoundTripTolerance)
            /\ Within(out[t].b, origin[t][1].b, RoundTripTolerance)
            /\ Within(out[t].c, origin[t][1].c, RoundTripTolerance)
            /\ IsBlackOrWhite(origin[t][1]) => out[t] = origin[t][1]

\* What a public function returns when nothing interferes with its call.
PublicResult(f, x) ==
    CASE f = "hsluv2rgb" -> hsluv2rgb(x)
      [] f = "hpluv2rgb" -> hpluv2rgb(x)
      [] f = "rgb2hsluv" -> rgb2hsluv(x)
      [] f = "rgb2hpluv" -> rgb2hpluv(x)
\* The functions on the call chain of thread t, and its caller.
CallChain(t) == {fn[t], ChromaFn(fn[t]), "caller"}
\* C8 as amended: in any interleaving of calls, every store of a call goes
\* to an object of its own thread's call chain: to tmp of the public
\* function (directly, or from a converter through in_out), to bounds of
\* the chroma function (from get_bounds through its pointer), or through
\* the result pointers to the caller's doubles; no object is stored to by
\* calls of two threads, no constant table is stored to, and every call
\* returns what it returns when run alone.
C8_ThreadConfined ==
    /\ \A w \in writes :
           /\ w.kind \in {"tmp", "bounds", "out"}
           /\ w.owner \in CallChain(w.thread)
    /\ \A w1, w2 \in writes :
           (w1.thread /= w2.thread) => (<<w1.kind, w1.cell>> /= <<w2.kind, w2.cell>>)
    /\ \A t \in Threads : Done(t) => out[t] = PublicResult(fn[t], arg[t])
C8_Witness ==
    /\ Done(1) /\ fn[1] = "hsluv2rgb"
    /\ pc[2] = "chroma_return" /\ fn[2] = "rgb2hpluv"
    /\ \E w1, w2 \in writes : w1.thread = 1 /\ w2.thread = 2 /\ w1.kind = w2.kind
\* C8 as stated: every write a function performs targets only its own
\* locals.
C8_AsStated == \A w \in writes : w.by = w.owner

\* The steps of the longest call: the entry, three plain converters, the
\* converter that calls the chroma function (test of l, six passes of each
\* of two loops, return), the stores of the result.
MaxSteps == 1 + 3 + (2 + 6 + 6) + 1
InCall(t) == pc[t] \notin {"idle", "done"}
InSearchLoop(t) == pc[t] \in {"max_chroma_for_lh", "max_safe_chroma_for_l"}
\* The points of a call at which a step of it is defined.
ProgramPoints ==
    {"hsluv2lch", "hpluv2lch", "lch2hsluv", "lch2hpluv", "get_bounds",
     "max_chroma_for_lh", "max_safe_chroma_for_l", "chroma_return", "lch2luv",
     "luv2xyz", "xyz2rgb", "rgb2xyz", "xyz2luv", "luv2lch", "store"}
StepsBounded ==
    \A t \in Threads :
        /\ steps[t] <= MaxSteps
        /\ gb_iters[t] <= 6 /\ loop_iters[t] <= 6
        /\ InSearchLoop(t) => (i[t] < 6 /\ Len(bounds[t]) = 6)
        /\ InCall(t) => pc[t] \in ProgramPoints
        /\ Done(t) => <<gb_iters[t], loop_iters[t]>> \in {<<0, 0>>, <<6, 6>>}
\* C9 as amended: every call of the four public functions, for every
\* input, finite or not, returns after at most MaxSteps steps; the only
\* loops it executes are the loop of get_bounds (3 x 2 passes) and one
\* search loop of 6 passes, both or neither.
C9_Terminates ==
    /\ []StepsBounded
    /\ \A t \in {1} : InCall(t) ~> Done(t)
C9_Witness ==
    /\ Done(1) /\ arg[1].c = NaN /\ steps[1] = MaxSteps
    /\ gb_iters[1] = 6 /\ loop_iters[1] = 6
\* C9 as stated: a call executes at most one loop, of 6 passes.
C9_AsStated == \A t \in Threads : gb_iters[t] = 0 /\ loop_iters[t] <= 6

\* max_chroma_for_lh has finished its loop in thread t.
AtRayReturn(t) == pc[t] = "chroma_return" /\ ChromaFn(fn[t]) = "max_chroma_for_lh"
\* The distance of segment j of thread t's bounds along the ray of hue H.
Dist(t, j) ==
    ray_length_until_intersect(max_chroma_hrad(ChromaH(fn[t], tmp[TmpCell(t)])), bounds[t][j])
Eligible(t) == {j \in 1..6 : FGe(Dist(t, j), Zero(1)) /\ FLt(Dist(t, j), FLT_MAX)}
\* C10 as amended: max_chroma_for_lh(L,H) returns the least of the
\* distances intercept / (sin(H) - slope * cos(H)) of the 6 segments of
\* get_bounds(L) that are at least 0 and below FLT_MAX: it equals one of
\* them and none of them is smaller; a negative or NaN distance never
\* influences it; when no segment has such a distance (L or H not finite,
\* for one) it returns FLT_MAX.
C10_MinDistance ==
    \A t \in Threads :
        AtRayReturn(t) =>
            IF Eligible(t) = {} THEN min_len[t] = FLT_MAX
            ELSE /\ \E j \in Eligible(t) : FEq(min_len[t], Dist(t, j))
                 /\ \A k \in Eligible(t) : FLe(min_len[t], Dist(t, k))
C10_Witness ==
    /\ AtRayReturn(1)
    /\ Eligible(1) /= {}
    /\ \E j \in 1..6 : FLt(Dist(1, j), Zero(1))
    /\ min_len[1] /= FLT_MAX
\* C10 as stated: the result equals the distance of some segment and no
\* segment has a non-negative distance smaller than the result.
C10_AsStated ==
    \A t \in Threads :
        AtRayReturn(t) =>
            /\ \E j \in 1..6 : FEq(min_len[t], Dist(t, j))
            /\ \A k \in 1..6 : FGe(Dist(t, k), Zero(1)) => FLe(min_len[t], Dist(t, k))
====
